---- MODULE Spec2Model ----
(***************************************************************************)
(* The userMessage handler of src/app.js (Slack assistant): the channel     *)
(* summary path, the fuzzy-search pipeline (query expansion, message        *)
(* search, relevance ranking, presentation) and the plain LLM answer path.  *)
(* One action per resumption of the handler at an await point; the          *)
(* external services (Slack API, completion service) answer                 *)
(* nondeterministically from the small sets defined below.                  *)
(*                                                                          *)
(* Strings the code parses are sequences of one-character strings. The      *)
(* user's message text is a sequence of symbols, the literals the code      *)
(* tests for ("Fuzzy search", the summary prompt) being one symbol each.    *)
(***************************************************************************)
EXTENDS Integers, Sequences, FiniteSets, TLC

VARIABLES pc, text, query, expansionText, keywords, ki, allResults,
          outcomes, rankText, posted, calls, handlers

\* the locals of the invocation of the handler that Spec follows
locals == <<pc, text, query, expansionText, keywords, ki, allResults,
            outcomes, rankText, posted, calls>>

\* handlers holds the invocations that run side by side in Concurrent (their
\* locals and the answers they have received); Spec follows one invocation
\* and has none there
vars == <<pc, text, query, expansionText, keywords, ki, allResults,
          outcomes, rankText, posted, calls, handlers>>

(***************************************************************************)
(* Bounds of the model and constants of the program                        *)
(***************************************************************************)
\* longest tail of free tokens appended to a ranking reply
MaxTail == 1
\* number of hits of the largest search result (at most SearchCount)
BigSize == 16

\* src/app.js:233  count: 20
SearchCount == 20
\* src/app.js:284  slice(0, 15)
MaxResults == 15
\* src/app.js:293  substring(0, 30)
SnippetLen == 30
\* src/app.js:143  limit: 50
HistoryLimit == 50
\* src/app.js:152  limit: 10
RetryLimit == 10
\* src/app.js:203  the prompt asks the completion for 10 queries at most
QueryCap == 10

(***************************************************************************)
(* String primitives of JavaScript, as the code uses them                  *)
(***************************************************************************)
WhiteSpace == {" ", "\n"}

DigitChars == <<"0", "1", "2", "3", "4", "5", "6", "7", "8", "9">>

IsDigit(c) == \E i \in 1..10 : DigitChars[i] = c

DigitVal(c) == (CHOOSE i \in 1..10 : DigitChars[i] = c) - 1

RECURSIVE TrimStart(_)
TrimStart(s) ==
    IF s # <<>> /\ Head(s) \in WhiteSpace THEN TrimStart(Tail(s)) ELSE s

RECURSIVE TrimEnd(_)
TrimEnd(s) ==
    IF s # <<>> /\ s[Len(s)] \in WhiteSpace
    THEN TrimEnd(SubSeq(s, 1, Len(s) - 1))
    ELSE s

\* String.prototype.trim
Trim(s) == TrimEnd(TrimStart(s))

\* a function on 1..n as the sequence of its values
Tuple(f) == f \o <<>>

\* the k-th smallest element of a set of numbers
Kth(S, k) == CHOOSE p \in S : Cardinality({q \in S : q < p}) = k - 1

\* String.prototype.split(sep) for a one-character separator: k separators
\* give k + 1 parts, empty parts included ("" gives [""]). The parts lie
\* between consecutive cuts, the cuts being the separators and the two ends.
Split(s, sep) ==
    LET cuts == {0} \cup {i \in 1..Len(s) : s[i] = sep} \cup {Len(s) + 1}
    IN  Tuple([k \in 1..(Cardinality(cuts) - 1) |->
                  SubSeq(s, Kth(cuts, k) + 1, Kth(cuts, k + 1) - 1)])

\* String.prototype.split(/[\n,]+/): a maximal run of separators is one cut,
\* r runs give r + 1 parts, empty parts at the two ends included.
SplitRuns(s, seps) ==
    LET n      == Len(s)
        starts == {i \in 1..n : s[i] \in seps /\ (i = 1 \/ s[i - 1] \notin seps)}
        ends   == {i \in 1..n : s[i] \in seps /\ (i = n \/ s[i + 1] \notin seps)}
        r      == Cardinality(starts)
    IN  Tuple([k \in 1..(r + 1) |->
                  SubSeq(s, IF k = 1 THEN 1 ELSE Kth(ends, k - 1) + 1,
                            IF k = r + 1 THEN n ELSE Kth(starts, k) - 1)])

\* Array.prototype.join(sep)
RECURSIVE Join(_, _)
Join(parts, sep) ==
    IF parts = <<>> THEN <<>>
    ELSE IF Len(parts) = 1 THEN parts[1]
         ELSE LET h == Len(parts) \div 2
              IN  Join(SubSeq(parts, 1, h), sep) \o <<sep>>
                    \o Join(SubSeq(parts, h + 1, Len(parts)), sep)

\* String(n) for a natural number n
RECURSIVE NumStr(_)
NumStr(n) ==
    IF n < 10 THEN <<DigitChars[n + 1]>>
    ELSE NumStr(n \div 10) \o <<DigitChars[(n % 10) + 1]>>

\* The value of the longest prefix of decimal digits of s, acc so far.
RECURSIVE DigitsValue(_, _)
DigitsValue(s, acc) ==
    IF s # <<>> /\ IsDigit(Head(s))
    THEN DigitsValue(Tail(s), 10 * acc + DigitVal(Head(s)))
    ELSE acc

NaN == [nan |-> TRUE, val |-> 0]

Num(v) == [nan |-> FALSE, val |-> v]

\* parseInt(s): leading white space is skipped, then an optional sign, then
\* the longest prefix of digits is the value whatever follows it; NaN when
\* there is no digit at that place.
ParseInt(s) ==
    LET t    == TrimStart(s)
        neg  == t # <<>> /\ Head(t) = "-"
        sgnd == t # <<>> /\ Head(t) \in {"-", "+"}
        u    == IF sgnd THEN Tail(t) ELSE t
    IN  IF u = <<>> \/ ~IsDigit(Head(u)) THEN NaN
        ELSE Num((IF neg THEN -1 ELSE 1) * DigitsValue(u, 0))

\* x - 1 on a number or NaN
MinusOne(x) == IF x.nan THEN NaN ELSE Num(x.val - 1)

\* Array.prototype.slice(0, n)
SliceTo(s, n) == SubSeq(s, 1, IF Len(s) < n THEN Len(s) ELSE n)

(***************************************************************************)
(* The pure steps of the fuzzy-search pipeline                             *)
(***************************************************************************)
FuzzyLabel == "Fuzzy search"

SummaryPrompt == "Assistant, please summarize the activity in this channel!"

\* message.text.startsWith('Fuzzy search')
StartsWithFuzzy(t) == t # <<>> /\ Head(t) = FuzzyLabel

\* message.text.split(':')
Parts(t) == Split(t, ":")

\* a filter that keeps every token
NonEmptyAlways(k) == TRUE

NonEmpty(k) == k # <<>>

\* content.split(/[\n,]+/).map(k => k.trim()).filter(k => k)
Keywords(content) ==
    LET parts   == SplitRuns(content, {"\n", ","})
        trimmed == Tuple([i \in 1..Len(parts) |-> Trim(parts[i])])
    IN  SelectSeq(trimmed, NonEmpty)

\* the conversion without the shift to 0-based indexes
TokenIndexNoShift(tok) == ParseInt(Trim(tok))

\* index => parseInt(index.trim()) - 1
TokenIndex(tok) == MinusOne(ParseInt(Trim(tok)))

\* index => !isNaN(index) && index >= 0 && index < allResults.length
ValidIndex(x, n) == ~x.nan /\ x.val >= 0 /\ x.val < n

\* content.split(',').map(...).filter(...): the validated 0-based indexes
EvaluatedIndexes(content, n) ==
    LET toks     == Split(content, ",")
        indexes  == Tuple([i \in 1..Len(toks) |-> TokenIndex(toks[i])])
        Valid(x) == ValidIndex(x, n)
        kept     == SelectSeq(indexes, Valid)
    IN  Tuple([i \in 1..Len(kept) |-> kept[i].val])

\* evaluatedIndexes.forEach: msg = allResults[index] is stored under its
\* permalink unless uniqueResults has that key already. Every index visited
\* leaves the permalink of its message in the object, so the keys present
\* when position j of idxs is visited are the permalinks referenced at the
\* positions before j.
KeysBefore(pool, idxs, j) == {pool[idxs[i] + 1].permalink : i \in 1..(j - 1)}

\* a forEach that stores every message it visits
InsertedAlways(pool, idxs, j) == TRUE

\* position j of idxs stores its message
Inserted(pool, idxs, j) ==
    pool[idxs[j] + 1].permalink \notin KeysBefore(pool, idxs, j)

\* Object.values(uniqueResults): the stored messages in insertion order (the
\* keys are permalinks, URLs, never canonical array indexes, so the
\* enumeration order of the object is its insertion order).
UniqueResults(pool, idxs) ==
    LET Stores(j) == Inserted(pool, idxs, j)
        at == SelectSeq([j \in 1..Len(idxs) |-> j], Stores)
    IN  Tuple([k \in 1..Len(at) |-> pool[idxs[at[k]] + 1]])

\* Object.values(uniqueResults) without the slice
TruncateNone(unique) == unique

\* Object.values(uniqueResults).slice(0, 15)
Truncate(unique) == SliceTo(unique, MaxResults)

Results(pool, content) ==
    Truncate(UniqueResults(pool, EvaluatedIndexes(content, Len(pool))))

\* `${idx + 1}. ${msg.text.substring(0, 30)}... -> <${msg.permalink}|link>`
ResponseLine(msg, n) ==
    [n |-> n, snippet |-> SliceTo(msg.text, SnippetLen), ellipsis |-> TRUE,
     permalink |-> msg.permalink]

ResponseLines(results) ==
    Tuple([i \in 1..Len(results) |-> ResponseLine(results[i], i)])

(***************************************************************************)
(* Messages posted with say()                                              *)
(***************************************************************************)
Msg(kind, body) == [kind |-> kind, body |-> body]

\* src/app.js:187
UsageHint == Msg("usage", <<>>)
\* src/app.js:229
KeywordsMsg(kws) == Msg("keywords", kws)
\* src/app.js:287
NoRelevantMsg == Msg("norelevant", <<>>)
\* src/app.js:295
ResultsMsg(results) == Msg("results", ResponseLines(results))
\* src/app.js:178 and 328: the text of a completion
LlmMsg(kind) == Msg(kind, <<>>)
\* src/app.js:333
GenericFailure == Msg("generic", <<>>)

(***************************************************************************)
(* Calls to the external services                                          *)
(***************************************************************************)
CallRec(api, purpose, q, limit) ==
    [api |-> api, purpose |-> purpose, query |-> q, limit |-> limit,
     result |-> "pending"]

Completion(purpose, q) == CallRec("chat.completions.create", purpose, q, 0)

SearchCall(keyword) == CallRec("search.messages", "search", keyword, SearchCount)

HistoryCall(limit) == CallRec("conversations.history", "history", <<>>, limit)

JoinCall == CallRec("conversations.join", "join", <<>>, 0)

RepliesCall == CallRec("conversations.replies", "replies", <<>>, 0)

ContextCall == CallRec("getThreadContext", "context", <<>>, 0)

\* the pending call, which is the last one, has returned with r
Returned(r) == [calls EXCEPT ![Len(calls)].result = r]

(***************************************************************************)
(* What the user and the external services may send                        *)
(***************************************************************************)
\* the texts of the user's message
Texts ==
    { <<SummaryPrompt>>,
      <<"q">>,
      <<FuzzyLabel>>,
      <<FuzzyLabel, " ", "q">>,
      <<FuzzyLabel, ":">>,
      <<FuzzyLabel, ":", " ">>,
      <<FuzzyLabel, ":", " ", "q", " ">> }

\* a query whose search finds nothing
NoHitQuery == <<"c">>

\* a completion of QueryCap + 1 queries, one more than the prompt asks for
ManyQueries == Join(Tuple([i \in 1..(QueryCap + 1) |-> NoHitQuery]), ",")

\* the texts of the expansion completion
ExpansionContents ==
    { <<>>,
      <<" ", ",", "\n">>,
      <<"a">>,
      <<"a", ",", "b">>,
      <<" ", "a", " ", "\n", "\n", "b", ",">>,
      ManyQueries }

Hit(t, p) == [text |-> t, permalink |-> p]

\* a text of SnippetLen + 1 characters, one of SnippetLen, a short one
LongText == Tuple([i \in 1..(SnippetLen + 1) |-> "x"])

ExactText == Tuple([i \in 1..SnippetLen |-> "y"])

ShortText == <<"z">>

HitA == Hit(LongText, 1)

HitB == Hit(ShortText, 2)

\* the message of HitA found again with another text
HitA2 == Hit(ExactText, 1)

\* BigSize hits with pairwise distinct permalinks
BigMatches == Tuple([i \in 1..BigSize |-> Hit(ShortText, i)])

Found(matches) ==
    [ok |-> TRUE, error |-> "", hasMatches |-> TRUE, matches |-> matches]

\* a response without messages.matches
NoMatchesField ==
    [ok |-> TRUE, error |-> "", hasMatches |-> FALSE, matches |-> <<>>]

Failed(e) == [ok |-> FALSE, error |-> e, hasMatches |-> FALSE, matches |-> <<>>]

\* the successful responses of search.messages
SearchResponses ==
    { NoMatchesField, Found(<<>>), Found(<<HitA, HitB>>), Found(<<HitA2>>),
      Found(BigMatches) }

\* the errors of a Slack API call: a membership error and another one
ApiErrors == {"not_in_channel", "ratelimited"}

\* what search.messages may answer to a query, and how it may fail
SearchAnswers(keyword) ==
    IF keyword = NoHitQuery THEN {NoMatchesField} ELSE SearchResponses

SearchErrors(keyword) == IF keyword = NoHitQuery THEN {} ELSE ApiErrors

SeqsUpTo(S, k) == UNION {[1..m -> S] : m \in 0..k}

\* the tokens "1" .. "n"
Ident(n) == Tuple([i \in 1..n |-> NumStr(i)])

\* the tokens "n" .. "1"
Rev(n) == Tuple([i \in 1..n |-> NumStr(n + 1 - i)])

\* free tokens of a ranking reply for a pool of n hits: valid ones, the two
\* just outside the range, text, and a number followed by text
TailTokens(n) ==
    { <<"1">>, <<" ", "2", " ">>, NumStr(n), NumStr(n + 1), <<"0">>, <<"a">>,
      <<"2", "a">> }

\* two tokens that name no hit
Junk == << <<"a">>, <<"0">> >>

\* the texts of the ranking completion for a pool of n hits: nothing, every
\* index in the order of the pool or in the reverse order, or two tokens
\* that name no hit, followed by free tokens
RankContents(n) ==
    { Join(b \o t, ",") : b \in {<<>>, Ident(n), Rev(n), Junk},
                          t \in SeqsUpTo(TailTokens(n), MaxTail) }

(***************************************************************************)
(* The handler                                                             *)
(***************************************************************************)
Init ==
    /\ pc = "prologue"
    /\ text \in Texts
    /\ query = <<>>
    /\ expansionText = <<>>
    /\ keywords = <<>>
    /\ ki = 0
    /\ allResults = <<>>
    /\ outcomes = <<>>
    /\ rankText = <<>>
    /\ posted = <<>>
    /\ calls = <<>>
    /\ handlers = <<>>

\* a catch block that logs and posts nothing
CatchSilent(cs) ==
    /\ pc' = "done"
    /\ posted' = posted
    /\ calls' = cs

\* the catch block of the handler
Catch(cs) ==
    /\ pc' = "done"
    /\ posted' = Append(posted, GenericFailure)
    /\ calls' = cs

\* setTitle or setStatus throws
PrologueFail ==
    /\ pc = "prologue"
    /\ Catch(calls)
    /\ UNCHANGED <<handlers, text, query, expansionText, keywords, ki,
                   allResults,
                   outcomes, rankText>>

\* ---- Scenario 1: summarize the channel (src/app.js:136-181) ----

\* the prompt is the summary prompt: getThreadContext is awaited
EnterSummary ==
    /\ pc = "prologue"
    /\ text = <<SummaryPrompt>>
    /\ pc' = "await_context"
    /\ calls' = Append(calls, ContextCall)
    /\ UNCHANGED <<handlers, text, query, expansionText, keywords, ki,
                   allResults,
                   outcomes, rankText, posted>>

ContextFail ==
    /\ pc = "await_context"
    /\ Catch(Returned("error"))
    /\ UNCHANGED <<handlers, text, query, expansionText, keywords, ki,
                   allResults,
                   outcomes, rankText>>

\* conversations.history({limit: 50}) is awaited
ContextReturn ==
    /\ pc = "await_context"
    /\ pc' = "await_history"
    /\ calls' = Append(Returned("ok"), HistoryCall(HistoryLimit))
    /\ UNCHANGED <<handlers, text, query, expansionText, keywords, ki,
                   allResults,
                   outcomes, rankText, posted>>

\* the history is there: the summary completion is awaited
HistoryReturn ==
    /\ pc \in {"await_history", "await_history_retry"}
    /\ pc' = "await_summary"
    /\ calls' = Append(Returned("ok"), Completion("summary", <<>>))
    /\ UNCHANGED <<handlers, text, query, expansionText, keywords, ki,
                   allResults,
                   outcomes, rankText, posted>>

\* e.data.error === 'not_in_channel': conversations.join is awaited
HistoryNotInChannel ==
    /\ pc = "await_history"
    /\ pc' = "await_join"
    /\ calls' = Append(Returned("not_in_channel"), JoinCall)
    /\ UNCHANGED <<handlers, text, query, expansionText, keywords, ki,
                   allResults,
                   outcomes, rankText, posted>>

\* another error is logged and the handler goes on to the summary completion
HistoryOtherErrorIgnored ==
    /\ pc = "await_history"
    /\ \E e \in ApiErrors \ {"not_in_channel"} :
          /\ pc' = "await_summary"
          /\ calls' = Append(Returned(e), Completion("summary", <<>>))
    /\ UNCHANGED <<handlers, text, query, expansionText, keywords, ki,
                   allResults,
                   outcomes, rankText, posted>>

\* another error is logged; channelHistory stays undefined and reading
\* channelHistory.messages throws into the catch block of the handler
HistoryOtherError ==
    /\ pc = "await_history"
    /\ \E e \in ApiErrors \ {"not_in_channel"} : Catch(Returned(e))
    /\ UNCHANGED <<handlers, text, query, expansionText, keywords, ki,
                   allResults,
                   outcomes, rankText>>

JoinFail ==
    /\ pc = "await_join"
    /\ Catch(Returned("error"))
    /\ UNCHANGED <<handlers, text, query, expansionText, keywords, ki,
                   allResults,
                   outcomes, rankText>>

\* conversations.history({limit: 10}) is awaited
JoinReturn ==
    /\ pc = "await_join"
    /\ pc' = "await_history_retry"
    /\ calls' = Append(Returned("ok"), HistoryCall(RetryLimit))
    /\ UNCHANGED <<handlers, text, query, expansionText, keywords, ki,
                   allResults,
                   outcomes, rankText, posted>>

\* the retry throws out of the inner catch block
HistoryRetryFail ==
    /\ pc = "await_history_retry"
    /\ \E e \in ApiErrors : Catch(Returned(e))
    /\ UNCHANGED <<handlers, text, query, expansionText, keywords, ki,
                   allResults,
                   outcomes, rankText>>

SummaryFail ==
    /\ pc = "await_summary"
    /\ Catch(Returned("error"))
    /\ UNCHANGED <<handlers, text, query, expansionText, keywords, ki,
                   allResults,
                   outcomes, rankText>>

SummaryReturn ==
    /\ pc = "await_summary"
    /\ pc' = "done"
    /\ posted' = Append(posted, LlmMsg("summary"))
    /\ calls' = Returned("ok")
    /\ UNCHANGED <<handlers, text, query, expansionText, keywords, ki,
                   allResults,
                   outcomes, rankText>>

\* ---- Fuzzy search (src/app.js:184-298) ----

\* parts.length < 2: the usage hint
EmptyQueryHint ==
    /\ pc = "prologue"
    /\ text # <<SummaryPrompt>>
    /\ StartsWithFuzzy(text)
    /\ Len(Parts(text)) < 2
    /\ pc' = "done"
    /\ posted' = Append(posted, UsageHint)
    /\ UNCHANGED <<handlers, text, query, expansionText, keywords, ki,
                   allResults,
                   outcomes, rankText, calls>>

\* query = parts[1].trim(); the expansion completion is awaited
StartExpansion ==
    /\ pc = "prologue"
    /\ text # <<SummaryPrompt>>
    /\ StartsWithFuzzy(text)
    /\ Len(Parts(text)) >= 2
    /\ query' = Trim(Parts(text)[2])
    /\ pc' = "await_expansion"
    /\ calls' = Append(calls, Completion("expansion", query'))
    /\ UNCHANGED <<handlers, text, expansionText, keywords, ki, allResults, outcomes,
                   rankText, posted>>

\* a failed expansion taken for an empty list of keywords
ExpansionFailAsEmpty ==
    /\ pc = "await_expansion"
    /\ expansionText' = <<>>
    /\ keywords' = <<>>
    /\ posted' = Append(posted, Msg("keywords", <<>>))
    /\ allResults' = <<>>
    /\ ki' = ki
    /\ pc' = "await_replies"
    /\ calls' = Append(Returned("error"),
                       [api |-> "conversations.replies", purpose |-> "replies",
                        query |-> <<>>, limit |-> 0, result |-> "pending"])
    /\ UNCHANGED <<handlers, text, query, outcomes, rankText>>

ExpansionFail ==
    /\ pc = "await_expansion"
    /\ Catch(Returned("error"))
    /\ UNCHANGED <<handlers, text, query, expansionText, keywords, ki,
                   allResults,
                   outcomes, rankText>>

\* a loop that is left for the ranking completion as soon as the pool has a
\* hit
LoopHeadEager(kws, i, pool, cs) ==
    /\ allResults' = pool
    /\ IF Len(pool) > 0
       THEN /\ pc' = "await_ranking"
            /\ ki' = i
            /\ calls' = Append(cs, Completion("ranking", query))
       ELSE IF i <= Len(kws)
            THEN /\ pc' = "await_search"
                 /\ ki' = i
                 /\ calls' = Append(cs, SearchCall(kws[i]))
            ELSE /\ pc' = "await_replies"
                 /\ ki' = ki
                 /\ calls' = Append(cs, RepliesCall)

\* The handler at the head of iteration i of the loop over kws, with the
\* hits pool and the calls cs: the next search is awaited; after the last
\* keyword the ranking completion when the pool has a hit, and otherwise the
\* handler falls through to Scenario 2 and awaits conversations.replies.
LoopHead(kws, i, pool, cs) ==
    /\ allResults' = pool
    /\ IF i <= Len(kws)
       THEN /\ pc' = "await_search"
            /\ ki' = i
            /\ calls' = Append(cs, SearchCall(kws[i]))
       ELSE /\ ki' = ki
            /\ IF Len(pool) > 0
               THEN /\ pc' = "await_ranking"
                    /\ calls' = Append(cs, Completion("ranking", query))
               ELSE /\ pc' = "await_replies"
                    /\ calls' = Append(cs, RepliesCall)

\* the keywords are parsed and posted, the loop is entered
ExpansionReturn ==
    /\ pc = "await_expansion"
    /\ \E content \in ExpansionContents :
          /\ expansionText' = content
          /\ keywords' = Keywords(content)
          /\ posted' = Append(posted, KeywordsMsg(keywords'))
          /\ LoopHead(keywords', 1, <<>>, Returned("ok"))
    /\ UNCHANGED <<handlers, text, query, outcomes, rankText>>

\* the matches put in front of the pool
ConcatFront(pool, response) ==
    IF response.hasMatches THEN response.matches \o pool ELSE pool

\* allResults.concat(searchResponse.messages.matches) when it is there
Concat(pool, response) ==
    IF response.hasMatches THEN pool \o response.matches ELSE pool

SearchReturn ==
    /\ pc = "await_search"
    /\ \E r \in SearchAnswers(keywords[ki]) :
          /\ outcomes' = Append(outcomes, r)
          /\ LoopHead(keywords, ki + 1, Concat(allResults, r), Returned("ok"))
    /\ UNCHANGED <<handlers, text, query, expansionText, keywords, rankText, posted>>

\* a failed search thrown into the catch block of the handler
SearchFailEscalated ==
    /\ pc = "await_search"
    /\ \E e \in SearchErrors(keywords[ki]) :
          /\ outcomes' = Append(outcomes, Failed(e))
          /\ Catch(Returned(e))
    /\ UNCHANGED <<handlers, text, query, expansionText, keywords, ki,
                   allResults,
                   rankText>>

\* catch (error) { logger.error(error) }: the loop goes on
SearchFail ==
    /\ pc = "await_search"
    /\ \E e \in SearchErrors(keywords[ki]) :
          /\ outcomes' = Append(outcomes, Failed(e))
          /\ LoopHead(keywords, ki + 1, allResults, Returned(e))
    /\ UNCHANGED <<handlers, text, query, expansionText, keywords, rankText, posted>>

RankingFail ==
    /\ pc = "await_ranking"
    /\ Catch(Returned("error"))
    /\ UNCHANGED <<handlers, text, query, expansionText, keywords, ki,
                   allResults,
                   outcomes, rankText>>

\* the result list whatever its length
RankingSayList(results) == [kind |-> "results", body |-> ResponseLines(results)]

\* what the handler says once the ranking completion is there
RankingSay(results) ==
    IF Len(results) = 0 THEN NoRelevantMsg ELSE ResultsMsg(results)

RankingReturn ==
    /\ pc = "await_ranking"
    /\ \E content \in RankContents(Len(allResults)) :
          /\ rankText' = content
          /\ posted' = Append(posted, RankingSay(Results(allResults, content)))
    /\ pc' = "done"
    /\ calls' = Returned("ok")
    /\ UNCHANGED <<handlers, text, query, expansionText, keywords, ki,
                   allResults,
                   outcomes>>

\* ---- Scenario 2: pass the message to the LLM (src/app.js:300-328) ----

EnterScenario2 ==
    /\ pc = "prologue"
    /\ text # <<SummaryPrompt>>
    /\ ~StartsWithFuzzy(text)
    /\ pc' = "await_replies"
    /\ calls' = Append(calls, RepliesCall)
    /\ UNCHANGED <<handlers, text, query, expansionText, keywords, ki,
                   allResults,
                   outcomes, rankText, posted>>

RepliesFail ==
    /\ pc = "await_replies"
    /\ Catch(Returned("error"))
    /\ UNCHANGED <<handlers, text, query, expansionText, keywords, ki,
                   allResults,
                   outcomes, rankText>>

RepliesReturn ==
    /\ pc = "await_replies"
    /\ pc' = "await_answer"
    /\ calls' = Append(Returned("ok"), Completion("answer", text))
    /\ UNCHANGED <<handlers, text, query, expansionText, keywords, ki,
                   allResults,
                   outcomes, rankText, posted>>

AnswerFail ==
    /\ pc = "await_answer"
    /\ Catch(Returned("error"))
    /\ UNCHANGED <<handlers, text, query, expansionText, keywords, ki,
                   allResults,
                   outcomes, rankText>>

AnswerReturn ==
    /\ pc = "await_answer"
    /\ pc' = "done"
    /\ posted' = Append(posted, LlmMsg("answer"))
    /\ calls' = Returned("ok")
    /\ UNCHANGED <<handlers, text, query, expansionText, keywords, ki,
                   allResults,
                   outcomes, rankText>>

Next ==
    \/ PrologueFail
    \/ EnterSummary
    \/ ContextFail
    \/ ContextReturn
    \/ HistoryReturn
    \/ HistoryNotInChannel
    \/ HistoryOtherError
    \/ JoinFail
    \/ JoinReturn
    \/ HistoryRetryFail
    \/ SummaryFail
    \/ SummaryReturn
    \/ EmptyQueryHint
    \/ StartExpansion
    \/ ExpansionFail
    \/ ExpansionReturn
    \/ SearchReturn
    \/ SearchFail
    \/ RankingFail
    \/ RankingReturn
    \/ EnterScenario2
    \/ RepliesFail
    \/ RepliesReturn
    \/ AnswerFail
    \/ AnswerReturn

Spec == Init /\ [][Next]_vars

\* Every awaited call returns or throws and say() succeeds, so a handler
\* that can be resumed is resumed.
FairSpec == Spec /\ WF_vars(Next)

(***************************************************************************)
(* Invocations of the handler side by side                                 *)
(*                                                                         *)
(* Bolt calls userMessage once per message; an invocation runs until its   *)
(* next await and is resumed when the awaited promise settles, so the      *)
(* invocations interleave at their await points. The handler is written    *)
(* here as a function: Resumed(s, a) is the locals of an invocation with   *)
(* the locals s after the promise it awaits has settled with a and the      *)
(* handler has run to its next await or to its end.                        *)
(***************************************************************************)
\* the locals when the handler is entered with the message text t
Fresh(t) ==
    [pc |-> "prologue", text |-> t, query |-> <<>>, expansionText |-> <<>>,
     keywords |-> <<>>, ki |-> 0, allResults |-> <<>>, outcomes |-> <<>>,
     rankText |-> <<>>, posted |-> <<>>, calls |-> <<>>]

\* a promise fulfilled with v, a promise rejected with the error e
Fulfilled(v) == [ok |-> TRUE, value |-> v]

Rejected(e) == [ok |-> FALSE, value |-> e]

\* the calls cs, the last of which has settled with r
Settled(cs, r) == [cs EXCEPT ![Len(cs)].result = r]

\* the catch block of the handler
Caught(s, cs) ==
    [s EXCEPT !.pc = "done", !.posted = Append(@, GenericFailure),
              !.calls = cs]

\* the handler goes on to await the call c
Await(s, p, cs, c) == [s EXCEPT !.pc = p, !.calls = Append(cs, c)]

\* the head of iteration i of the loop over s.keywords with the hits pool
AtLoopHead(s, i, pool, cs) ==
    LET t == [s EXCEPT !.allResults = pool]
    IN  IF i <= Len(s.keywords)
        THEN Await([t EXCEPT !.ki = i], "await_search", cs,
                   SearchCall(s.keywords[i]))
        ELSE IF Len(pool) > 0
             THEN Await(t, "await_ranking", cs, Completion("ranking", s.query))
             ELSE Await(t, "await_replies", cs, RepliesCall)

\* setTitle and setStatus have returned: the handler runs to its first await
Entered(s) ==
    IF s.text = <<SummaryPrompt>>
    THEN Await(s, "await_context", s.calls, ContextCall)
    ELSE IF StartsWithFuzzy(s.text)
         THEN IF Len(Parts(s.text)) < 2
              THEN [s EXCEPT !.pc = "done", !.posted = Append(@, UsageHint)]
              ELSE LET q == Trim(Parts(s.text)[2])
                   IN  Await([s EXCEPT !.query = q], "await_expansion",
                             s.calls, Completion("expansion", q))
         ELSE Await(s, "await_replies", s.calls, RepliesCall)

\* the awaited promise is rejected with e
Thrown(s, e) ==
    CASE s.pc = "prologue" -> Caught(s, s.calls)
      [] s.pc = "await_history" /\ e = "not_in_channel" ->
             Await(s, "await_join", Settled(s.calls, e), JoinCall)
      [] s.pc = "await_search" ->
             AtLoopHead([s EXCEPT !.outcomes = Append(@, Failed(e))],
                        s.ki + 1, s.allResults, Settled(s.calls, e))
      [] OTHER -> Caught(s, Settled(s.calls, e))

\* the awaited promise is fulfilled with v
Got(s, v) ==
    LET cs == Settled(s.calls, "ok")
    IN  CASE s.pc = "prologue" -> Entered(s)
          [] s.pc = "await_context" ->
                 Await(s, "await_history", cs, HistoryCall(HistoryLimit))
          [] s.pc \in {"await_history", "await_history_retry"} ->
                 Await(s, "await_summary", cs, Completion("summary", <<>>))
          [] s.pc = "await_join" ->
                 Await(s, "await_history_retry", cs, HistoryCall(RetryLimit))
          [] s.pc = "await_summary" ->
                 [s EXCEPT !.pc = "done", !.calls = cs,
                           !.posted = Append(@, LlmMsg("summary"))]
          [] s.pc = "await_expansion" ->
                 LET kws == Keywords(v)
                 IN  AtLoopHead([s EXCEPT !.expansionText = v,
                                          !.keywords = kws,
                                          !.posted = Append(@, KeywordsMsg(kws))],
                                1, <<>>, cs)
          [] s.pc = "await_search" ->
                 AtLoopHead([s EXCEPT !.outcomes = Append(@, v)],
                            s.ki + 1, Concat(s.allResults, v), cs)
          [] s.pc = "await_ranking" ->
                 [s EXCEPT !.pc = "done", !.calls = cs, !.rankText = v,
                           !.posted =
                               Append(@, RankingSay(Results(s.allResults, v)))]
          [] s.pc = "await_replies" ->
                 Await(s, "await_answer", cs, Completion("answer", s.text))
          [] s.pc = "await_answer" ->
                 [s EXCEPT !.pc = "done", !.calls = cs,
                           !.posted = Append(@, LlmMsg("answer"))]

Resumed(s, a) == IF a.ok THEN Got(s, a.value) ELSE Thrown(s, a.value)

\* the invocations that run side by side
Invocations == {"h1", "h2"}

\* the texts of their messages
ConcurrentTexts ==
    { <<SummaryPrompt>>, <<"q">>, <<FuzzyLabel>>, <<FuzzyLabel, ":", "q">> }

\* what the promise awaited with the locals s may be fulfilled with
Fulfilments(s) ==
    CASE s.pc = "await_expansion" -> { <<>>, <<"a", ",", "b">> }
      [] s.pc = "await_search" -> { Found(<<HitA, HitB>>), Found(<<HitA2>>) }
      [] s.pc = "await_ranking" -> { <<"2", ",", "1">>, <<"a">> }
      [] s.pc = "done" -> {}
      [] OTHER -> { "ok" }

\* what it may be rejected with
Rejections(s) ==
    CASE s.pc \in {"await_history", "await_history_retry"} -> ApiErrors
      [] s.pc = "await_search" -> {"not_in_channel"}
      [] s.pc = "done" -> {}
      [] OTHER -> {"error"}

\* a write to allResults that the other invocations see: the locals of h
\* become t and allResults is one variable of the module
WriteSharedPool(hs, h, t, a) ==
    [g \in DOMAIN hs |->
        IF g = h
        THEN [locals |-> t, received |-> Append(hs[h].received, a)]
        ELSE [hs[g] EXCEPT !.locals.allResults = t.allResults]]

\* Every variable the handler writes is declared in the handler (const and
\* let, src/app.js:116-328): after invocation h has received a and run on
\* to the locals t, the locals of the other invocations are what they were.
Write(hs, h, t, a) ==
    [hs EXCEPT ![h] = [locals |-> t, received |-> Append(@.received, a)]]

ConcurrentInit ==
    /\ handlers \in [Invocations ->
                        {[locals |-> Fresh(t), received |-> <<>>] :
                            t \in ConcurrentTexts}]
    /\ pc = "idle"
    /\ text = <<>>
    /\ query = <<>>
    /\ expansionText = <<>>
    /\ keywords = <<>>
    /\ ki = 0
    /\ allResults = <<>>
    /\ outcomes = <<>>
    /\ rankText = <<>>
    /\ posted = <<>>
    /\ calls = <<>>

\* the promise invocation h awaits is fulfilled and h runs to its next await
Returns(h) ==
    /\ \E v \in Fulfilments(handlers[h].locals) :
          handlers' = Write(handlers, h,
                            Resumed(handlers[h].locals, Fulfilled(v)),
                            Fulfilled(v))
    /\ UNCHANGED locals

\* the promise invocation h awaits is rejected
Throws(h) ==
    /\ \E e \in Rejections(handlers[h].locals) :
          handlers' = Write(handlers, h,
                            Resumed(handlers[h].locals, Rejected(e)),
                            Rejected(e))
    /\ UNCHANGED locals

ConcurrentNext ==
    \/ \E h \in Invocations : Returns(h)
    \/ \E h \in Invocations : Throws(h)

Concurrent == ConcurrentInit /\ [][ConcurrentNext]_vars

(***************************************************************************)
(* Vocabulary of the properties                                            *)
(***************************************************************************)
CallsWith(purpose) == {i \in DOMAIN calls : calls[i].purpose = purpose}

CallResult(purpose, r) == \E i \in CallsWith(purpose) : calls[i].result = r

Said(kind) == \E i \in DOMAIN posted : posted[i].kind = kind

LastSaid(kind) == posted # <<>> /\ posted[Len(posted)].kind = kind

\* the ranking completion has returned and the handler has answered
RankingDone == pc = "done" /\ CallResult("ranking", "ok")

\* the permalinks of the result list posted last (none if no list is)
FinalPermalinks ==
    IF LastSaid("results")
    THEN LET lines == posted[Len(posted)].body
         IN  Tuple([k \in 1..Len(lines) |-> lines[k].permalink])
    ELSE <<>>

\* the permalinks the validated indexes of the ranking reply refer to, in
\* the order of the reply
ValidatedRefs ==
    LET idxs == EvaluatedIndexes(rankText, Len(allResults))
    IN  Tuple([j \in 1..Len(idxs) |-> allResults[idxs[j] + 1].permalink])

Range(f) == {f[j] : j \in DOMAIN f}

Positions(f, p) == {j \in DOMAIN f : f[j] = p}

First(f, p) == CHOOSE j \in Positions(f, p) : \A i \in Positions(f, p) : j <= i

\* the rank of p among the distinct elements of f in order of first occurrence
FirstRank(f, p) == 1 + Cardinality({f[i] : i \in 1..(First(f, p) - 1)})

(***************************************************************************)
(* Properties of the ranker                                                *)
(***************************************************************************)
\* C1 as stated: whatever the pool and the validated indexes, a permalink
\* referenced several times is exactly once in the final result, at the
\* position of its first reference.
C1_AsStated ==
    RankingDone =>
        LET refs == ValidatedRefs
            final == FinalPermalinks
        IN  \A p \in Range(refs) :
                Cardinality(Positions(refs, p)) >= 2 =>
                    Positions(final, p) = {FirstRank(refs, p)}

\* C1 amended: a referenced permalink is at most once in the final result;
\* it is there, at the position of its first reference among the distinct
\* permalinks referenced, exactly when that position is one of the first
\* MaxResults, so the kept hits are in order of first reference.
C1_DedupFirstReference ==
    RankingDone =>
        LET refs == ValidatedRefs
            final == FinalPermalinks
        IN  \A p \in Range(refs) :
                Positions(final, p) =
                    IF FirstRank(refs, p) <= MaxResults
                    THEN {FirstRank(refs, p)} ELSE {}

\* C1 witness: the ranker answers for the pool <<HitA, HitB>> with the second
\* hit first and the first hit twice; the list posted is HitB, HitA.
C1_Witness ==
    /\ RankingDone
    /\ allResults = <<HitA, HitB>>
    /\ Cardinality(Positions(ValidatedRefs, HitA.permalink)) >= 2
    /\ FinalPermalinks = <<HitB.permalink, HitA.permalink>>

\* C3: the result list posted has at most MaxResults entries, also when more
\* distinct permalinks are referenced, and they are the first ones in the
\* order of first reference.
C3_Truncation ==
    /\ \A i \in DOMAIN posted :
          posted[i].kind = "results" => Len(posted[i].body) <= MaxResults
    /\ RankingDone =>
          LET refs == ValidatedRefs
              final == FinalPermalinks
              distinct == Cardinality(Range(refs))
          IN  /\ Len(final) =
                    IF distinct < MaxResults THEN distinct ELSE MaxResults
              /\ \A k \in DOMAIN final :
                    /\ final[k] \in Range(refs)
                    /\ FirstRank(refs, final[k]) = k

\* C3 witness: more than MaxResults distinct permalinks are referenced and
\* the list posted has MaxResults entries.
C3_Witness ==
    /\ RankingDone
    /\ Cardinality(Range(ValidatedRefs)) > MaxResults
    /\ Len(FinalPermalinks) = MaxResults

\* a token that is a decimal number once trimmed
IsNumeric(tok) ==
    LET t == Trim(tok)
    IN  t # <<>> /\ \A i \in DOMAIN t : IsDigit(t[i])

\* C2 as stated: a non-numeric token of the ranking reply is dropped, so
\* every entry of the result list is the hit of a token that is a number
\* in 1 .. Len(allResults).
C2_AsStated ==
    RankingDone =>
        LET toks == Split(rankText, ",")
            final == FinalPermalinks
        IN  \A k \in DOMAIN final :
                \E j \in DOMAIN toks :
                    /\ IsNumeric(toks[j])
                    /\ DigitsValue(Trim(toks[j]), 0) \in 1..Len(allResults)
                    /\ allResults[DigitsValue(Trim(toks[j]), 0)].permalink
                          = final[k]

(***************************************************************************)
(* Properties of the search loop                                           *)
(***************************************************************************)
\* the expansion completion has returned and every keyword has been searched
LoopOver ==
    /\ CallResult("expansion", "ok")
    /\ pc \notin {"await_expansion", "await_search"}

\* the hits of the searches that succeeded, in the order of the searches
RECURSIVE HitsOf(_)
HitsOf(os) ==
    IF os = <<>> THEN <<>>
    ELSE HitsOf(SubSeq(os, 1, Len(os) - 1)) \o os[Len(os)].matches

Count(f, x) == Cardinality({j \in DOMAIN f : f[j] = x})

\* the queries of the search calls made so far, in order
SearchedQueries ==
    LET at == SelectSeq([i \in 1..Len(calls) |-> i],
                        LAMBDA i : calls[i].api = "search.messages")
    IN  Tuple([k \in 1..Len(at) |-> calls[at[k]].query])

\* C4: a failed search is not escalated: once the loop is over every keyword
\* has been searched, whichever searches failed; the pool holds exactly the
\* hits of the searches that succeeded; and with a hit in the pool the
\* ranking completion is called, no failure message having been posted.
C4_PartialFailure ==
    /\ (Said("generic") /\ calls # <<>>) =>
          calls[Len(calls)].api # "search.messages"
    /\ LoopOver =>
          /\ Len(outcomes) = Len(keywords)
          /\ SearchedQueries = keywords
          /\ Len(allResults) = Len(HitsOf(outcomes))
          /\ \A h \in Range(allResults) \cup Range(HitsOf(outcomes)) :
                Count(allResults, h) = Count(HitsOf(outcomes), h)
          /\ allResults # <<>> =>
                /\ CallsWith("ranking") # {}
                /\ \A i \in CallsWith("ranking") :
                      /\ i = 1 + Len(keywords) + 1
                      /\ calls[i - 1].api = "search.messages"
                /\ CallResult("ranking", "pending") =>
                      Len(posted) = 1 /\ posted[1].kind = "keywords"

\* C4 witness: of two searches the first has failed and the second has
\* found hits, and the ranking completion is awaited with these hits.
C4_Witness ==
    /\ pc = "await_ranking"
    /\ Len(outcomes) = 2
    /\ ~outcomes[1].ok
    /\ outcomes[2].ok
    /\ allResults = outcomes[2].matches
    /\ allResults # <<>>

\* C5: the pool is the concatenation of the hits of each search in the
\* order of the keywords, each search's hits in the order of its response;
\* the searches are made one at a time in that order, so no timing of the
\* responses can change the index of a hit.
C5_PoolOrder ==
    /\ allResults = HitsOf(outcomes)
    /\ SearchedQueries = SubSeq(keywords, 1, Len(SearchedQueries))
    /\ Len(SearchedQueries) = Len(outcomes) + (IF pc = "await_search" THEN 1 ELSE 0)
    /\ \A i \in DOMAIN calls : calls[i].result = "pending" => i = Len(calls)

\* C5 witness: two searches have returned different hits and the pool is
\* the hits of the first followed by those of the second.
C5_Witness ==
    /\ pc = "await_ranking"
    /\ Len(outcomes) = 2
    /\ outcomes[1].matches = <<HitA, HitB>>
    /\ outcomes[2].matches = <<HitA2>>
    /\ allResults = <<HitA, HitB, HitA2>>

(***************************************************************************)
(* Properties of the failure handling                                      *)
(***************************************************************************)
\* C6: when the expansion completion fails the run is over with the generic
\* failure message as its only message, and no search call and no ranking
\* completion is made: the expansion call is the only call of the run.
C6_ExpansionFailure ==
    CallResult("expansion", "error") =>
        /\ pc = "done"
        /\ Len(posted) = 1
        /\ posted[1].kind = "generic"
        /\ CallsWith("search") = {}
        /\ CallsWith("ranking") = {}
        /\ Len(calls) = 1

\* C6 witness: the expansion completion has failed.
C6_Witness ==
    /\ pc = "done"
    /\ StartsWithFuzzy(text)
    /\ CallResult("expansion", "error")

\* C7 as stated: when every search of a run has failed or found nothing, the
\* ranking completion is not called and the message that ends the run is
\* the one that reports that no message was found (src/app.js:287 is the
\* only such message of the handler).
C7_AsStated ==
    (pc = "done" /\ LoopOver /\ keywords # <<>> /\ allResults = <<>>) =>
        /\ CallsWith("ranking") = {}
        /\ LastSaid("norelevant")

\* nothing but the label, or the label, a colon and white space
EmptyRemainder(t) ==
    /\ StartsWithFuzzy(t)
    /\ LET rest == Trim(Tail(t))
       IN  rest = <<>> \/ (Head(rest) = ":" /\ Trim(Tail(rest)) = <<>>)

\* C8 as stated: a fuzzy-search message with nothing after the label is
\* answered with the usage hint, and neither the completion service nor the
\* search is called.
C8_AsStated ==
    EmptyRemainder(text) =>
        /\ \A i \in DOMAIN calls :
              calls[i].api \notin {"chat.completions.create", "search.messages"}
        /\ \A i \in DOMAIN posted : posted[i].kind \in {"usage", "generic"}

\* C9 as stated: after a search that failed with a membership error the
\* executor asks to join and searches the same query once more with the
\* limit RetryLimit.
C9_AsStated ==
    \A i \in DOMAIN outcomes :
        outcomes[i].error = "not_in_channel" =>
            /\ \E j \in DOMAIN calls : calls[j].api = "conversations.join"
            /\ \E j \in DOMAIN calls :
                  /\ calls[j].api = "search.messages"
                  /\ calls[j].query = keywords[i]
                  /\ calls[j].limit = RetryLimit

\* a token of the ranking reply that names a hit of a pool of n hits
Usable(tok, n) ==
    LET x == ParseInt(Trim(tok))
    IN  ~x.nan /\ x.val >= 1 /\ x.val <= n

C11_AsStated ==
    (StartsWithFuzzy(text) /\ CallsWith("expansion") # {} /\ Said("generic")) =>
        CallResult("expansion", "error") \/ CallResult("ranking", "error")

\* C12: every line of a result list posted shows a hit of the pool that a
\* token of the ranking reply selects by an index valid for the pool (the
\* token's number less one is in 0 .. Len(allResults) - 1), and that hit was
\* returned by a search call of the run.
C12_Subset ==
    \A i \in DOMAIN posted :
        posted[i].kind = "results" =>
            LET lines    == posted[i].body
                toks     == Split(rankText, ",")
                n        == Len(allResults)
                returned == Range(HitsOf(outcomes))
            IN  /\ CallResult("ranking", "ok")
                /\ \A k \in DOMAIN lines :
                      \E j \in DOMAIN toks :
                          LET x == ParseInt(Trim(toks[j]))
                          IN  /\ ~x.nan
                              /\ (x.val - 1) \in 0..(n - 1)
                              /\ allResults[x.val].permalink = lines[k].permalink
                              /\ SliceTo(allResults[x.val].text, SnippetLen)
                                    = lines[k].snippet
                              /\ allResults[x.val] \in returned

\* C12 witness: the pool is <<HitA, HitB>>, the ranking reply has a token
\* that is dropped, and the list posted shows HitB alone.
C12_Witness ==
    /\ RankingDone
    /\ allResults = <<HitA, HitB>>
    /\ Len(Split(rankText, ",")) >= 2
    /\ FinalPermalinks = <<HitB.permalink>>

\* C13 as stated: the list of expanded queries has at most QueryCap entries
\* and at most QueryCap searches are made in a run.
C13_AsStated ==
    /\ Len(keywords) <= QueryCap
    /\ Cardinality(CallsWith("search")) <= QueryCap

\* C14 as stated: when the expansion completion returns a text without any
\* non-blank token the run ends there with the failure message: the
\* expansion completion is the only call of the run.
C14_AsStated ==
    (CallResult("expansion", "ok") /\ Keywords(expansionText) = <<>>) =>
        /\ \A i \in DOMAIN calls : calls[i].purpose = "expansion"
        /\ pc = "done"
        /\ LastSaid("generic")

\* C15 as stated: the list posted has one line per entry of the final
\* result, numbered from 1 in its order, with the permalink of the entry and
\* the first SnippetLen characters of its text at most, and the ellipsis is
\* on a line exactly when the text of the entry is longer than SnippetLen.
C15_AsStated ==
    (RankingDone /\ LastSaid("results")) =>
        LET results == Results(allResults, rankText)
            lines   == posted[Len(posted)].body
        IN  /\ Len(lines) = Len(results)
            /\ \A k \in DOMAIN lines :
                  /\ lines[k].n = k
                  /\ lines[k].permalink = results[k].permalink
                  /\ lines[k].snippet = SliceTo(results[k].text, SnippetLen)
                  /\ Len(lines[k].snippet) <= SnippetLen
                  /\ lines[k].ellipsis <=> (Len(results[k].text) > SnippetLen)

(***************************************************************************)
(* Properties of the order of the stages and of the parsing                *)
(***************************************************************************)
\* C17: a search call is made only after the expansion completion has
\* returned; the ranking completion is called only when every expanded
\* query has been searched and each of these searches has returned or
\* failed; a result list is posted only when the ranking completion has
\* returned; and each of the two completions is called at most once.
C17_Sequencing ==
    /\ Cardinality(CallsWith("expansion")) <= 1
    /\ Cardinality(CallsWith("ranking")) <= 1
    /\ \A i \in CallsWith("search") :
          \E j \in CallsWith("expansion") : j < i /\ calls[j].result = "ok"
    /\ \A i \in CallsWith("ranking") :
          /\ SearchedQueries = Keywords(expansionText)
          /\ Len(outcomes) = Len(SearchedQueries)
          /\ \A j \in CallsWith("search") :
                j < i /\ calls[j].result # "pending"
    /\ \A k \in DOMAIN posted :
          posted[k].kind = "results" => CallResult("ranking", "ok")

\* C17 witness: two queries have been searched, the ranking completion has
\* returned and a result list is posted.
C17_Witness ==
    /\ RankingDone
    /\ Cardinality(CallsWith("search")) = 2
    /\ LastSaid("results")

\* the tokens of s read from left to right: cur holds the characters since
\* the last newline or comma, acc the trimmed non-empty tokens so far
RECURSIVE Scan(_, _, _)
Scan(s, cur, acc) ==
    LET tok  == Trim(cur)
        next == IF tok = <<>> THEN acc ELSE Append(acc, tok)
    IN  IF s = <<>> THEN next
        ELSE IF Head(s) \in {"\n", ","} THEN Scan(Tail(s), <<>>, next)
             ELSE Scan(Tail(s), Append(cur, Head(s)), acc)

\* a string with a character that is not white space
NotBlank(k) == \E i \in DOMAIN k : k[i] \notin WhiteSpace

\* C18: the expanded queries are the tokens between the newlines and commas
\* of the completion text, trimmed, the empty ones left out, in the order
\* of the text; so every query searched has a character that is not white
\* space, and no separator.
C18_Parsing ==
    /\ CallResult("expansion", "ok") =>
          keywords = Scan(expansionText, <<>>, <<>>)
    /\ \A i \in CallsWith("search") :
          /\ NotBlank(calls[i].query)
          /\ \A j \in DOMAIN calls[i].query :
                calls[i].query[j] \notin {"\n", ","}
          /\ calls[i].query \in Range(Scan(expansionText, <<>>, <<>>))

\* C18 witness: a completion text with blanks around a token, two newlines
\* in a row and a comma at the end gives the two queries a and b, and b is
\* being searched.
C18_Witness ==
    /\ expansionText = <<" ", "a", " ", "\n", "\n", "b", ",">>
    /\ keywords = << <<"a">>, <<"b">> >>
    /\ pc = "await_search"
    /\ calls[Len(calls)].query = <<"b">>

(***************************************************************************)
(* Properties of the channel summary                                       *)
(***************************************************************************)
\* a history call that has failed
HistoryFailed(i) ==
    /\ calls[i].purpose = "history"
    /\ calls[i].result \notin {"pending", "ok"}

\* C20: conversations.join is called only right after the first history
\* call (limit HistoryLimit) has failed with not_in_channel, and once; when
\* it returns the history is asked for once more, with limit RetryLimit, and
\* never again; the summary completion is called only right after a history
\* call that has returned; and after any other history failure the run is
\* over with the generic failure message and no summary completion.
C20_SummaryRecovery ==
    /\ Cardinality(CallsWith("join")) <= 1
    /\ \A i \in CallsWith("join") :
          /\ i > 1
          /\ calls[i - 1].purpose = "history"
          /\ calls[i - 1].limit = HistoryLimit
          /\ calls[i - 1].result = "not_in_channel"
          /\ calls[i].result = "ok" =>
                /\ i < Len(calls)
                /\ calls[i + 1].purpose = "history"
                /\ calls[i + 1].limit = RetryLimit
    /\ \A i \in CallsWith("history") :
          IF calls[i].limit = HistoryLimit
          THEN /\ \A j \in CallsWith("history") : j >= i
               /\ calls[i].result = "not_in_channel" =>
                     /\ i < Len(calls)
                     /\ calls[i + 1].purpose = "join"
          ELSE /\ calls[i].limit = RetryLimit
               /\ calls[i - 1].purpose = "join"
               /\ calls[i - 1].result = "ok"
    /\ Cardinality(CallsWith("history")) <= 2
    /\ \A i \in CallsWith("summary") :
          /\ calls[i - 1].purpose = "history"
          /\ calls[i - 1].result = "ok"
    /\ \A i \in CallsWith("history") :
          (HistoryFailed(i)
             /\ ~(calls[i].limit = HistoryLimit
                    /\ calls[i].result = "not_in_channel")) =>
              /\ CallsWith("summary") = {}
              /\ pc = "done"
              /\ LastSaid("generic")

\* C20 witness: the first history call has failed with not_in_channel, the
\* channel has been joined, the second history call has returned and the
\* summary is posted.
C20_Witness ==
    /\ pc = "done"
    /\ LastSaid("summary")
    /\ CallsWith("join") # {}
    /\ Cardinality(CallsWith("history")) = 2

(***************************************************************************)
(* Termination                                                             *)
(***************************************************************************)
\* C19: when every awaited call returns or throws, the handler terminates,
\* and whenever it has terminated at least one message has been posted.
C19_EventualResponse ==
    /\ <>(pc = "done")
    /\ [](pc = "done" => posted # <<>>)

\* C19 witness: a run that ended in the catch block after a search had
\* found nothing: the handler is done and the generic failure is posted
\* after the keywords.
C19_Witness ==
    /\ pc = "done"
    /\ Len(posted) = 2
    /\ LastSaid("generic")
    /\ CallResult("replies", "error")

(***************************************************************************)
(* Independence of the invocations                                         *)
(***************************************************************************)
\* the locals of Spec's invocation as a record
Here ==
    [pc |-> pc, text |-> text, query |-> query,
     expansionText |-> expansionText, keywords |-> keywords, ki |-> ki,
     allResults |-> allResults, outcomes |-> outcomes, rankText |-> rankText,
     posted |-> posted, calls |-> calls]

\* the answers that a step of Spec may have received, read from what the
\* step has recorded
Recorded ==
    CASE pc = "await_expansion" ->
             {Fulfilled(expansionText'), Rejected("error")}
      [] pc = "await_search" ->
             {Fulfilled(outcomes'[Len(outcomes')])}
               \cup {Rejected(e) : e \in ApiErrors}
      [] pc = "await_ranking" -> {Fulfilled(rankText'), Rejected("error")}
      [] OTHER ->
             {Fulfilled("ok"), Rejected("error")}
               \cup {Rejected(e) : e \in ApiErrors}

\* the actions of Spec and the function Resumed are the same handler: a
\* step of Spec is Resumed for an answer that the step has recorded
StepIsResumed == [][\E a \in Recorded : Here' = Resumed(Here, a)]_vars

\* the handler run alone on the text t with the answers as
RECURSIVE Alone(_, _)
Alone(t, as) ==
    IF as = <<>> THEN Fresh(t)
    ELSE Resumed(Alone(t, SubSeq(as, 1, Len(as) - 1)), as[Len(as)])

\* C16: whatever the interleaving of the invocations at their awaits, the
\* locals of each (its pool, its calls, the messages it has posted, the
\* result list among them) are those of the handler run alone on the same
\* message with the same answers to its calls.
C16_Independence ==
    \A h \in Invocations :
        handlers[h].locals =
            Alone(handlers[h].locals.text, handlers[h].received)

\* C16 witness: both invocations have searched and have been resumed in
\* turn, they hold different pools, and one has posted its result list
\* while the other awaits its ranking.
C16_Witness ==
    /\ handlers["h1"].locals.pc = "done"
    /\ handlers["h1"].locals.allResults = <<HitA, HitB>>
    /\ handlers["h1"].locals.posted[2] = ResultsMsg(<<HitB, HitA>>)
    /\ handlers["h2"].locals.pc = "await_ranking"
    /\ handlers["h2"].locals.allResults = <<HitA2, HitA, HitB>>

====
